---------------------------- MODULE Spec2Model ----------------------------
(***************************************************************************)
(* Model of route_api/hos_calculator.py: the Hours-of-Service schedule     *)
(* simulator (HOSCalculator.calculate_route_schedule), the route-geometry  *)
(* projector (find_location_after_distance) and the entry mapping of the   *)
(* ELD log builder (generate_eld_logs).                                    *)
(*                                                                         *)
(* Arithmetic.  The program computes in floating-point hours and miles.    *)
(* Here every duration is an integer number of ticks of 1/Unit hour (the   *)
(* program's smallest duration, the 0.5 h break, is one tick) and every    *)
(* distance and coordinate an integer number of 1/MileUnit mile, so that   *)
(* speed * hours is exact for every leg of LegChoices.                     *)
(***************************************************************************)
EXTENDS Integers, Sequences, FiniteSets, TLC

(***************************************************************************)
(* Units                                                                   *)
(***************************************************************************)
\* ticks per hour: required_break_duration_hours = 0.5 h is one tick
Unit == 2
\* distance units per mile: makes distance_miles / duration_hours exact
MileUnit == 11 * Unit

Hr(h) == h * Unit
Mi(m) == m * MileUnit

(***************************************************************************)
(* HOSCalculator.__init__                                                  *)
(***************************************************************************)
max_daily_driving_hours == 11 * Unit
max_daily_duty_hours == 14 * Unit
min_rest_period_hours == 10 * Unit
required_break_after_hours == 8 * Unit
required_break_duration_hours == Unit \div 2
max_cycle_hours == 70 * Unit
cycle_days == 8
fuel_distance_miles == 1000 * MileUnit
fuel_duration_hours == 1 * Unit
pickup_duration_hours == 1 * Unit
dropoff_duration_hours == 1 * Unit
\* duration_hours of a RESTART event
restart_duration_hours == 34 * Unit
\* days a REST advances current_day by
rest_day_span == 1

\* a RESTART that advances current_day as a REST does
restart_day_span_AsRest == rest_day_span

\* days a RESTART advances current_day by
restart_day_span == 2
\* fallback speed, 55 mph, in distance units per tick
default_speed_mph == (55 * MileUnit) \div Unit

(***************************************************************************)
(* Bounds of the model                                                     *)
(***************************************************************************)
\* longest leg list given to calculate_route_schedule
MaxLegs == 2
\* longest schedule explored
MaxEvents == 40

(***************************************************************************)
(* Generic helpers                                                         *)
(***************************************************************************)
Min(a, b) == IF a <= b THEN a ELSE b
Max(a, b) == IF a >= b THEN a ELSE b
Abs(a) == IF a >= 0 THEN a ELSE 0 - a

RECURSIVE SumSeq(_)
SumSeq(s) == IF s = <<>> THEN 0 ELSE Head(s) + SumSeq(Tail(s))

Last(s) == s[Len(s)]

(***************************************************************************)
(* Inputs: route legs                                                      *)
(***************************************************************************)
\* geometry is None (segment.get("geometry") returns None): AttributeError
NullGeometry == [is_none |-> TRUE, coordinates |-> <<>>]
Geometry(coords) == [is_none |-> FALSE, coordinates |-> coords]

Leg(miles, hours, geom) ==
    [distance_miles |-> Mi(miles), duration_hours |-> Hr(hours), geometry |-> geom]

\* points are <<lon, lat>>; legs run along lat = 0 with lon in distance units
LegA == Leg(100, 2, Geometry(<< <<0, 0>>, <<Mi(100), 0>> >>))
LegB == Leg(600, 11, Geometry(<< <<0, 0>>, <<Mi(300), 0>>, <<Mi(600), 0>> >>))
LegC == Leg(1000, 8, Geometry(<< <<0, 0>>, <<Mi(400), 0>>, <<Mi(1000), 0>> >>))
LegD == Leg(150, 3, Geometry(<< <<Mi(7), 0>> >>))
LegE == Leg(100, 0, Geometry(<< <<0, 0>>, <<Mi(100), 0>> >>))
LegF == Leg(1300, 13, Geometry(<<>>))
LegG == Leg(100, 2, NullGeometry)

LegChoices == {LegA, LegB, LegC, LegD, LegE, LegF, LegG}

InitialHoursChoices == {Hr(0), Hr(50), Hr(59), Hr(70)}

RECURSIVE SeqsOfLen(_, _)
SeqsOfLen(S, n) ==
    IF n = 0 THEN {<<>>}
    ELSE {Append(s, x) : s \in SeqsOfLen(S, n - 1), x \in S}

SeqsUpTo(S, n) == UNION {SeqsOfLen(S, k) : k \in 0..n}

(***************************************************************************)
(* find_location_after_distance                                            *)
(***************************************************************************)
\* geopy's geodesic(...).miles on the modelled points (all on one parallel)
geodesic(start, end) == Abs(end[1] - start[1]) + Abs(end[2] - start[2])

RECURSIVE FindFrom(_, _, _, _)
FindFrom(route, target_distance_miles, k, distance_traveled) ==
    IF k > Len(route) - 1
    THEN [point |-> Last(route), rest |-> <<>>]
    ELSE LET start == route[k]
             end == route[k + 1]
         IN  IF Len(start) < 2 \/ Len(end) < 2
             THEN FindFrom(route, target_distance_miles, k + 1, distance_traveled)
             ELSE LET segment_distance == geodesic(start, end)
                  IN  IF distance_traveled + segment_distance >= target_distance_miles
                      THEN LET remaining_distance ==
                                   target_distance_miles - distance_traveled
                               \* ratio = max(0, min(1, remaining/segment)),
                               \* kept as the numerator over segment_distance
                               ratio_num ==
                                   IF segment_distance > 0
                                   THEN Max(0, Min(segment_distance, remaining_distance))
                                   ELSE 0
                               ratio_den ==
                                   IF segment_distance > 0 THEN segment_distance ELSE 1
                               lon == start[1]
                                        + (ratio_num * (end[1] - start[1])) \div ratio_den
                               lat == start[2]
                                        + (ratio_num * (end[2] - start[2])) \div ratio_den
                           IN  [point |-> <<lon, lat>>,
                                rest |-> SubSeq(route, k + 1, Len(route))]
                      ELSE FindFrom(route, target_distance_miles, k + 1,
                                    distance_traveled + segment_distance)

\* the remainder taken from the start vertex of the segment reached
find_location_after_distance_FromStart(route, target_distance_miles) ==
    IF Len(route) < 2
    THEN [point |-> IF route # <<>> THEN Last(route) ELSE <<0, 0>>, rest |-> <<>>]
    ELSE LET found == FindFrom(route, target_distance_miles, 1, 0)
         IN  [point |-> found.point,
              rest |-> IF found.rest = <<>> THEN <<>>
                       ELSE SubSeq(route, Len(route) - Len(found.rest), Len(route))]

\* lines 21-64
find_location_after_distance(route, target_distance_miles) ==
    IF Len(route) < 2
    THEN [point |-> IF route # <<>> THEN Last(route) ELSE <<0, 0>>, rest |-> <<>>]
    ELSE FindFrom(route, target_distance_miles, 1, 0)

(***************************************************************************)
(* State of one calculate_route_schedule call                              *)
(***************************************************************************)
VARIABLES
    route_segments,          \* argument: the legs
    initial_hours_used,      \* argument
    pickup_location_index,   \* argument (0-based leg index)
    schedule,                \* the events appended so far
    current_day_driving,
    current_day_duty,
    hours_since_break,
    cycle_hours_used,
    current_day,
    distance_since_fuel,
    pickup_done,
    current_location,
    daily_duty_hours,        \* the deque; daily_duty_hours[1] is Python's [0]
    i,                       \* 0-based index of the for loop
    remaining_segment_hours,
    remaining_coords,
    pc,                      \* "segment", "while", "drive", "fuel", "done", "logged"
    eld_logs,                \* views.py: the result of generate_eld_logs
    projector_calls          \* history: the find_location_after_distance calls made

vars == <<route_segments, initial_hours_used, pickup_location_index, schedule,
          current_day_driving, current_day_duty, hours_since_break,
          cycle_hours_used, current_day, distance_since_fuel, pickup_done,
          current_location, daily_duty_hours, i, remaining_segment_hours,
          remaining_coords, pc, eld_logs, projector_calls>>

inputs == <<route_segments, initial_hours_used, pickup_location_index>>

\* the dict appended to schedule; keys holds the optional keys that are present
Event(type, idx, dur, day, start, end, coord) ==
    [activity_type |-> type, location_index |-> idx, duration_hours |-> dur,
     day |-> day, start_duty_hours |-> start, end_duty_hours |-> end,
     coord |-> coord, keys |-> {"coord"}, distance_miles |-> 0,
     cycle_hours_remaining |-> 0, restart_type |-> ""]

segment == route_segments[i + 1]

\* no placeholder: a leg without usable geometry keeps an empty polyline
placeholder_coords_Empty == <<>>

\* lines 104 and 108
placeholder_coords == << <<0, 0>>, <<0, 0>> >>

\* coords after the try block of lines 99-108
SegmentCoords(seg) ==
    IF seg.geometry.is_none THEN placeholder_coords
    ELSE IF Len(seg.geometry.coordinates) < 2 THEN placeholder_coords
    ELSE seg.geometry.coordinates

\* speed_mph as the fraction speed_num / speed_den
speed_num(seg) == IF seg.duration_hours > 0 THEN seg.distance_miles ELSE default_speed_mph
speed_den(seg) == IF seg.duration_hours > 0 THEN seg.duration_hours ELSE 1

Init ==
    /\ route_segments \in SeqsUpTo(LegChoices, MaxLegs)
    /\ initial_hours_used \in InitialHoursChoices
    /\ pickup_location_index \in 0..MaxLegs
    /\ schedule = <<>>
    /\ current_day_driving = 0
    /\ current_day_duty = 0
    /\ hours_since_break = 0
    /\ cycle_hours_used = initial_hours_used
    /\ current_day = 1
    /\ distance_since_fuel = 0
    /\ pickup_done = FALSE
    /\ current_location = <<0, 0>>
    /\ daily_duty_hours = <<initial_hours_used>> \o [k \in 1..(cycle_days - 1) |-> 0]
    /\ i = 0
    /\ remaining_segment_hours = 0
    /\ remaining_coords = <<>>
    /\ pc = "segment"
    /\ eld_logs = <<>>
    /\ projector_calls = <<>>


(***************************************************************************)
(* Derived values of the while loop body                                   *)
(***************************************************************************)
\* the update of today's hours forgotten
AddToday_Skip(window, hours) == window

\* daily_duty_hours[0] += hours
AddToday(window, hours) == [window EXCEPT ![1] = @ + hours]

\* deque.append on a deque of maxlen cycle_days
DequeAppend(window, x) ==
    IF Len(window) >= cycle_days THEN Tail(window) \o <<x>> ELSE Append(window, x)

total_cycle_hours == SumSeq(daily_duty_hours)

remaining_cycle_hours == Max(0, max_cycle_hours - total_cycle_hours)

\* available_day_driving with the 70-hour term of line 157 left out
available_day_driving_NoCycle ==
    Min(Min(max_daily_driving_hours - current_day_driving,
            max_daily_duty_hours - current_day_duty),
        remaining_segment_hours)

\* available_day_driving with the daily driving term of line 155 left out
available_day_driving_NoDrivingCap ==
    Min(max_daily_duty_hours - current_day_duty,
        Min(remaining_cycle_hours, remaining_segment_hours))

available_day_driving ==
    Min(Min(max_daily_driving_hours - current_day_driving,
            max_daily_duty_hours - current_day_duty),
        Min(remaining_cycle_hours, remaining_segment_hours))

\* the pickup test without its pickup_done guard and with >= for ==
PickupHere_EveryLater == i >= pickup_location_index

\* the test of line 113
PickupHere == i = pickup_location_index /\ ~pickup_done

\* the loop test that gives up on a leg with two hours or less left
LoopContinues_StopsEarly == remaining_segment_hours > Hr(2)

\* the test of the while loop, line 130
LoopContinues == remaining_segment_hours > 0

\* the break test that never asks for a break
BreakNeeded_Never == hours_since_break < 0

\* the break test with a threshold of 4 hours
BreakNeeded_Early == hours_since_break >= Hr(4)

\* the test of line 132
BreakNeeded == hours_since_break >= required_break_after_hours

\* the fuel test without its distance condition
FuelNeeded_Always == remaining_coords # <<>>

\* the test of line 248
FuelNeeded == distance_since_fuel >= fuel_distance_miles /\ remaining_coords # <<>>

\* a call of find_location_after_distance made for the current leg: the
\* polyline it is given and the remainder it returns
ProjectorCall(route, remainder) ==
    [location_index |-> i, route |-> route, remainder |-> remainder]

\* the model explores schedules of fewer than MaxEvents events
WithinBound == Len(schedule) < MaxEvents

(***************************************************************************)
(* calculate_route_schedule, one action per block                          *)
(***************************************************************************)
\* lines 92-128: the head of the for loop, leg set-up and the pickup
BeginSegment ==
    /\ WithinBound
    /\ pc = "segment"
    /\ i < Len(route_segments)
    /\ LET coords == SegmentCoords(segment)
           \* line 105 is skipped by the exception of a None geometry
           loc == IF segment.geometry.is_none \/ coords = <<>>
                  THEN current_location ELSE coords[1]
       IN  /\ remaining_segment_hours' = segment.duration_hours
           /\ remaining_coords' = coords
           /\ current_location' = loc
           /\ IF PickupHere
              THEN /\ schedule' = Append(schedule,
                          Event("PICKUP", i, pickup_duration_hours, current_day,
                                current_day_duty,
                                current_day_duty + pickup_duration_hours, loc))
                   /\ current_day_duty' = current_day_duty + pickup_duration_hours
                   /\ hours_since_break' = hours_since_break + pickup_duration_hours
                   /\ cycle_hours_used' = cycle_hours_used + pickup_duration_hours
                   /\ daily_duty_hours' = AddToday(daily_duty_hours, pickup_duration_hours)
                   /\ pickup_done' = TRUE
              ELSE UNCHANGED <<schedule, current_day_duty, hours_since_break,
                               cycle_hours_used, daily_duty_hours, pickup_done>>
    /\ pc' = "while"
    /\ UNCHANGED <<inputs, eld_logs, projector_calls, current_day_driving, current_day, distance_since_fuel, i>>

\* line 130 false: the while loop ends and the for loop moves to the next leg
EndSegment ==
    /\ WithinBound
    /\ pc = "while"
    /\ ~LoopContinues
    /\ i' = i + 1
    /\ pc' = "segment"
    /\ UNCHANGED <<inputs, eld_logs, projector_calls, schedule, current_day_driving, current_day_duty,
                   hours_since_break, cycle_hours_used, current_day,
                   distance_since_fuel, pickup_done, current_location,
                   daily_duty_hours, remaining_segment_hours, remaining_coords>>

\* lines 130-146: top of a loop iteration, the 30-minute break check
BreakCheck ==
    /\ WithinBound
    /\ pc = "while"
    /\ LoopContinues
    /\ IF BreakNeeded
       THEN /\ schedule' = Append(schedule,
                   Event("BREAK", i, required_break_duration_hours, current_day,
                         current_day_duty,
                         current_day_duty + required_break_duration_hours,
                         current_location))
            /\ current_day_duty' = current_day_duty + required_break_duration_hours
            /\ cycle_hours_used' = cycle_hours_used + required_break_duration_hours
            /\ daily_duty_hours' = AddToday(daily_duty_hours, required_break_duration_hours)
            /\ hours_since_break' = 0
       ELSE UNCHANGED <<schedule, current_day_duty, cycle_hours_used,
                        daily_duty_hours, hours_since_break>>
    /\ pc' = "drive"
    /\ UNCHANGED <<inputs, eld_logs, projector_calls, current_day_driving, current_day, distance_since_fuel,
                   pickup_done, current_location, i, remaining_segment_hours,
                   remaining_coords>>

\* Restart without line 183, the reset of the window
Restart_KeepsWindow ==
    /\ WithinBound
    /\ pc = "drive"
    /\ available_day_driving <= 0
    /\ remaining_cycle_hours <= 0
    /\ schedule' = Append(schedule,
           [Event("RESTART", i, restart_duration_hours, current_day,
                  current_day_duty, 0, current_location)
              EXCEPT !.keys = {"coord", "restart_type"}, !.restart_type = "34-hour"])
    /\ current_day' = current_day + restart_day_span
    /\ current_day_driving' = 0
    /\ current_day_duty' = 0
    /\ hours_since_break' = 0
    /\ cycle_hours_used' = 0
    /\ pc' = "while"
    /\ UNCHANGED <<inputs, eld_logs, projector_calls, daily_duty_hours, distance_since_fuel, pickup_done, current_location, i,
                   remaining_segment_hours, remaining_coords>>

\* lines 148-184 and 205: no driving possible and the cycle is exhausted
Restart ==
    /\ WithinBound
    /\ pc = "drive"
    /\ available_day_driving <= 0
    /\ remaining_cycle_hours <= 0
    /\ schedule' = Append(schedule,
           [Event("RESTART", i, restart_duration_hours, current_day,
                  current_day_duty, 0, current_location)
              EXCEPT !.keys = {"coord", "restart_type"}, !.restart_type = "34-hour"])
    /\ current_day' = current_day + restart_day_span
    /\ current_day_driving' = 0
    /\ current_day_duty' = 0
    /\ hours_since_break' = 0
    /\ daily_duty_hours' = [k \in 1..cycle_days |-> 0]
    /\ cycle_hours_used' = 0
    /\ pc' = "while"
    /\ UNCHANGED <<inputs, eld_logs, projector_calls, distance_since_fuel, pickup_done, current_location, i,
                   remaining_segment_hours, remaining_coords>>

\* Rest without line 198, the reset of current_day_driving
Rest_KeepsDayDriving ==
    /\ WithinBound
    /\ pc = "drive"
    /\ available_day_driving <= 0
    /\ ~(remaining_cycle_hours <= 0)
    /\ schedule' = Append(schedule,
           Event("REST", i, min_rest_period_hours, current_day,
                 current_day_duty, 0, current_location))
    /\ current_day' = current_day + rest_day_span
    /\ current_day_duty' = 0
    /\ hours_since_break' = 0
    /\ daily_duty_hours' = DequeAppend(daily_duty_hours, 0)
    /\ pc' = "while"
    /\ UNCHANGED <<inputs, eld_logs, projector_calls, current_day_driving, cycle_hours_used, distance_since_fuel, pickup_done,
                   current_location, i, remaining_segment_hours, remaining_coords>>

\* Rest that also resets distance_since_fuel
Rest_ResetsFuel ==
    /\ WithinBound
    /\ pc = "drive"
    /\ available_day_driving <= 0
    /\ ~(remaining_cycle_hours <= 0)
    /\ schedule' = Append(schedule,
           Event("REST", i, min_rest_period_hours, current_day,
                 current_day_duty, 0, current_location))
    /\ current_day' = current_day + rest_day_span
    /\ current_day_driving' = 0
    /\ current_day_duty' = 0
    /\ hours_since_break' = 0
    /\ daily_duty_hours' = DequeAppend(daily_duty_hours, 0)
    /\ distance_since_fuel' = 0
    /\ pc' = "while"
    /\ UNCHANGED <<inputs, eld_logs, projector_calls, cycle_hours_used, pickup_done,
                   current_location, i, remaining_segment_hours, remaining_coords>>

\* Rest without line 197, the advance of current_day
Rest_StaysOnDay ==
    /\ WithinBound
    /\ pc = "drive"
    /\ available_day_driving <= 0
    /\ ~(remaining_cycle_hours <= 0)
    /\ schedule' = Append(schedule,
           Event("REST", i, min_rest_period_hours, current_day,
                 current_day_duty, 0, current_location))
    /\ current_day' = current_day
    /\ current_day_driving' = 0
    /\ current_day_duty' = 0
    /\ hours_since_break' = 0
    /\ daily_duty_hours' = DequeAppend(daily_duty_hours, 0)
    /\ pc' = "while"
    /\ UNCHANGED <<inputs, eld_logs, projector_calls, cycle_hours_used, distance_since_fuel, pickup_done,
                   current_location, i, remaining_segment_hours, remaining_coords>>

\* lines 148-164 and 185-205: no driving possible today, 10-hour rest
Rest ==
    /\ WithinBound
    /\ pc = "drive"
    /\ available_day_driving <= 0
    /\ ~(remaining_cycle_hours <= 0)
    /\ schedule' = Append(schedule,
           Event("REST", i, min_rest_period_hours, current_day,
                 current_day_duty, 0, current_location))
    /\ current_day' = current_day + rest_day_span
    /\ current_day_driving' = 0
    /\ current_day_duty' = 0
    /\ hours_since_break' = 0
    /\ daily_duty_hours' = DequeAppend(daily_duty_hours, 0)
    /\ pc' = "while"
    /\ UNCHANGED <<inputs, eld_logs, projector_calls, cycle_hours_used, distance_since_fuel, pickup_done,
                   current_location, i, remaining_segment_hours, remaining_coords>>

\* Drive without lines 218-219: the returned remainder is never kept
Drive_KeepsRoute ==
    /\ WithinBound
    /\ pc = "drive"
    /\ ~(available_day_driving <= 0)
    /\ LET available == available_day_driving
           distance_covered == (speed_num(segment) * available) \div speed_den(segment)
           project == Len(remaining_coords) > 1
           found == find_location_after_distance(remaining_coords, distance_covered)
           loc == IF project THEN found.point ELSE current_location
       IN  /\ current_location' = loc
           /\ remaining_coords' = remaining_coords
           /\ schedule' = Append(schedule,
                  [Event("DRIVING", i, available, current_day, current_day_duty,
                         current_day_duty + available, loc)
                     EXCEPT !.keys = {"coord", "distance_miles", "cycle_hours_remaining"},
                            !.distance_miles = distance_covered,
                            !.cycle_hours_remaining =
                                max_cycle_hours - (total_cycle_hours + available)])
           /\ current_day_driving' = current_day_driving + available
           /\ current_day_duty' = current_day_duty + available
           /\ hours_since_break' = hours_since_break + available
           /\ cycle_hours_used' = cycle_hours_used + available
           /\ daily_duty_hours' = AddToday(daily_duty_hours, available)
           /\ remaining_segment_hours' = remaining_segment_hours - available
           /\ distance_since_fuel' = distance_since_fuel + distance_covered
           /\ projector_calls' =
                  IF project
                  THEN Append(projector_calls, ProjectorCall(remaining_coords, found.rest))
                  ELSE projector_calls
    /\ pc' = "fuel"
    /\ UNCHANGED <<inputs, eld_logs, current_day, pickup_done, i>>

\* lines 148-162 and 207-245: a driving stint of available_day_driving hours
Drive ==
    /\ WithinBound
    /\ pc = "drive"
    /\ ~(available_day_driving <= 0)
    /\ LET available == available_day_driving
           distance_covered == (speed_num(segment) * available) \div speed_den(segment)
           project == Len(remaining_coords) > 1
           found == find_location_after_distance(remaining_coords, distance_covered)
           loc == IF project THEN found.point ELSE current_location
       IN  /\ current_location' = loc
           /\ remaining_coords' =
                  IF project /\ found.rest # <<>> THEN found.rest ELSE remaining_coords
           /\ schedule' = Append(schedule,
                  [Event("DRIVING", i, available, current_day, current_day_duty,
                         current_day_duty + available, loc)
                     EXCEPT !.keys = {"coord", "distance_miles", "cycle_hours_remaining"},
                            !.distance_miles = distance_covered,
                            !.cycle_hours_remaining =
                                max_cycle_hours - (total_cycle_hours + available)])
           /\ current_day_driving' = current_day_driving + available
           /\ current_day_duty' = current_day_duty + available
           /\ hours_since_break' = hours_since_break + available
           /\ cycle_hours_used' = cycle_hours_used + available
           /\ daily_duty_hours' = AddToday(daily_duty_hours, available)
           /\ remaining_segment_hours' = remaining_segment_hours - available
           /\ distance_since_fuel' = distance_since_fuel + distance_covered
           /\ projector_calls' =
                  IF project
                  THEN Append(projector_calls, ProjectorCall(remaining_coords, found.rest))
                  ELSE projector_calls
    /\ pc' = "fuel"
    /\ UNCHANGED <<inputs, eld_logs, current_day, pickup_done, i>>

\* lines 247-296: the fuel check that follows every driving stint
FuelCheck ==
    /\ WithinBound
    /\ pc = "fuel"
    /\ IF FuelNeeded
       THEN LET fuel_distance == Min(distance_since_fuel, fuel_distance_miles)
                found == find_location_after_distance(remaining_coords, fuel_distance)
            IN  /\ current_location' = found.point
                /\ remaining_coords' =
                       IF found.rest # <<>> THEN found.rest ELSE remaining_coords
                /\ schedule' = Append(schedule,
                       Event("FUEL", i, fuel_duration_hours, current_day,
                             current_day_duty, current_day_duty + fuel_duration_hours,
                             found.point))
                /\ current_day_duty' = current_day_duty + fuel_duration_hours
                /\ hours_since_break' = hours_since_break + fuel_duration_hours
                /\ cycle_hours_used' = cycle_hours_used + fuel_duration_hours
                /\ daily_duty_hours' = AddToday(daily_duty_hours, fuel_duration_hours)
                /\ distance_since_fuel' = 0
                /\ projector_calls' =
                       Append(projector_calls, ProjectorCall(remaining_coords, found.rest))
       ELSE UNCHANGED <<current_location, remaining_coords, schedule, current_day_duty,
                        hours_since_break, cycle_hours_used, daily_duty_hours,
                        distance_since_fuel, projector_calls>>
    /\ pc' = "while"
    /\ UNCHANGED <<inputs, eld_logs, current_day_driving, current_day, pickup_done, i,
                   remaining_segment_hours>>

\* lines 298-320: after the for loop, the dropoff and the return
Dropoff ==
    /\ WithinBound
    /\ pc = "segment"
    /\ ~(i < Len(route_segments))
    /\ IF route_segments # <<>>
       THEN LET final_geometry == Last(route_segments).geometry
                loc == IF ~final_geometry.is_none /\ final_geometry.coordinates # <<>>
                       THEN Last(final_geometry.coordinates)
                       ELSE current_location
            IN  /\ current_location' = loc
                /\ schedule' = Append(schedule,
                       Event("DROPOFF", Len(route_segments), dropoff_duration_hours,
                             current_day, current_day_duty,
                             current_day_duty + dropoff_duration_hours, loc))
       ELSE UNCHANGED <<current_location, schedule>>
    /\ pc' = "done"
    /\ UNCHANGED <<inputs, eld_logs, projector_calls, current_day_driving, current_day_duty, hours_since_break,
                   cycle_hours_used, current_day, distance_since_fuel, pickup_done,
                   daily_duty_hours, i, remaining_segment_hours, remaining_coords>>

(***************************************************************************)
(* generate_eld_logs                                                       *)
(***************************************************************************)
\* the status table with BREAK taken for on-duty time
LogStatus_BreakOnDuty(activity_type) ==
    IF activity_type = "DRIVING" THEN "D"
    ELSE IF activity_type \in {"PICKUP", "DROPOFF", "FUEL", "BREAK"} THEN "ON"
    ELSE IF activity_type \in {"REST", "RESTART"} THEN "SB"
    ELSE "OFF"

\* lines 350-359
LogStatus(activity_type) ==
    IF activity_type = "DRIVING" THEN "D"
    ELSE IF activity_type \in {"PICKUP", "DROPOFF", "FUEL"} THEN "ON"
    ELSE IF activity_type = "BREAK" THEN "OFF"
    ELSE IF activity_type \in {"REST", "RESTART"} THEN "SB"
    ELSE "OFF"

\* lines 361-382
LogEntry(item) ==
    [status |-> LogStatus(item.activity_type),
     start_hour |-> item.start_duty_hours,
     end_hour |-> IF item.activity_type \in {"REST", "RESTART"}
                  THEN 24 * Unit ELSE item.end_duty_hours,
     activity_type |-> item.activity_type,
     location_index |-> item.location_index,
     keys |-> item.keys \cap {"coord", "cycle_hours_remaining"},
     coord |-> item.coord,
     cycle_hours_remaining |-> item.cycle_hours_remaining]

RECURSIVE SortedDays(_)
\* the keys of days_schedule in the order sorted(days_schedule.items()) gives
SortedDays(S) ==
    IF S = {} THEN <<>>
    ELSE LET m == CHOOSE x \in S : \A y \in S : x <= y
         IN  <<m>> \o SortedDays(S \ {m})

\* the items left in the order given
SortedByStart_Unsorted(items) == items

\* sorted(items, key=lambda x: x['start_duty_hours']), a stable sort: an item
\* comes after the items that start earlier and the earlier items that start
\* at the same hour
SortedByStart(items) ==
    LET before(k) ==
            {j \in 1..Len(items) :
                \/ items[j].start_duty_hours < items[k].start_duty_hours
                \/ /\ items[j].start_duty_hours = items[k].start_duty_hours
                   /\ j < k}
    IN  [p \in 1..Len(items) |->
            items[CHOOSE k \in 1..Len(items) : Cardinality(before(k)) = p - 1]]

\* days_schedule[day], lines 330-335
DayItems(sched, day) == SelectSeq(sched, LAMBDA item : item.day = day)

\* lines 322-388
generate_eld_logs(sched) ==
    LET days == SortedDays({sched[k].day : k \in 1..Len(sched)})
    IN  [n \in 1..Len(days) |->
            LET items == SortedByStart(DayItems(sched, days[n]))
            IN  [day |-> days[n],
                 date |-> <<"Day", days[n]>>,
                 activities |-> [m \in 1..Len(items) |-> LogEntry(items[m])]]]

\* views.py lines 58-61: the logs are built from the returned schedule
GenerateLogs ==
    /\ pc = "done"
    /\ eld_logs' = generate_eld_logs(schedule)
    /\ pc' = "logged"
    /\ UNCHANGED <<inputs, projector_calls, schedule, current_day_driving, current_day_duty,
                   hours_since_break, cycle_hours_used, current_day,
                   distance_since_fuel, pickup_done, current_location,
                   daily_duty_hours, i, remaining_segment_hours, remaining_coords>>

Next ==
    \/ BeginSegment
    \/ EndSegment
    \/ BreakCheck
    \/ Restart
    \/ Rest
    \/ Drive
    \/ FuelCheck
    \/ Dropoff
    \/ GenerateLogs

Spec == Init /\ [][Next]_vars

\* the call runs to its return: no step of the function waits on anything
FairSpec == Spec /\ WF_vars(Next)

(***************************************************************************)
(* generate_eld_logs on its own: any short list of schedule items          *)
(***************************************************************************)
\* longest schedule given to generate_eld_logs on its own
MaxItems == 2

\* the seven activity types and one the status table does not know
ActivityChoices ==
    {"DRIVING", "PICKUP", "DROPOFF", "FUEL", "BREAK", "REST", "RESTART", "INSPECTION"}

LogItem(type, day, start, keys) ==
    [Event(type, 0, Hr(1), day, start,
           IF type \in {"REST", "RESTART"} THEN 0 ELSE start + Hr(1),
           <<Mi(day), start>>)
       EXCEPT !.keys = keys, !.cycle_hours_remaining = Hr(60) + start]

\* every activity type once, and one type on either day, at either start,
\* with and without the optional keys
LogItemChoices ==
    {LogItem(type, 1, Hr(3), {"coord"}) : type \in ActivityChoices}
    \cup {LogItem("DRIVING", day, start, keys) :
            day \in {1, 2}, start \in {Hr(0), Hr(3)},
            keys \in {{}, {"coord", "cycle_hours_remaining"}}}

LogInit ==
    /\ schedule \in SeqsUpTo(LogItemChoices, MaxItems)
    /\ pc = "done"
    /\ eld_logs = <<>>
    /\ projector_calls = <<>>
    /\ route_segments = <<>>
    /\ initial_hours_used = 0
    /\ pickup_location_index = 0
    /\ current_day_driving = 0
    /\ current_day_duty = 0
    /\ hours_since_break = 0
    /\ cycle_hours_used = 0
    /\ current_day = 1
    /\ distance_since_fuel = 0
    /\ pickup_done = FALSE
    /\ current_location = <<0, 0>>
    /\ daily_duty_hours = [k \in 1..cycle_days |-> 0]
    /\ i = 0
    /\ remaining_segment_hours = 0
    /\ remaining_coords = <<>>

LogNext == GenerateLogs

LogSpec == LogInit /\ [][LogNext]_vars

(***************************************************************************)
(* find_location_after_distance on its own: any short route, any target   *)
(***************************************************************************)
\* most points of a route given to find_location_after_distance on its own
MaxPoints == 3

\* [lon, lat] points, one of them off the parallel of the others
PointChoices == {<<0, 0>>, <<Mi(100), 0>>, <<Mi(300), 0>>, <<Mi(300), Mi(300)>>}

\* targets below zero, at zero, inside a segment, at a vertex, past the end
TargetChoices == {0 - Mi(50), 0, Mi(50), Mi(100), Mi(150), Mi(300), Mi(700)}

\* the route is held as the geometry of the only leg, the target as the
\* distance since the last fuel stop, as at the call of line 252
FindInit ==
    /\ \E route \in SeqsUpTo(PointChoices, MaxPoints) :
          /\ route_segments = <<Leg(0, 0, Geometry(route))>>
          /\ remaining_coords = route
    /\ distance_since_fuel \in TargetChoices
    /\ pc = "project"
    /\ eld_logs = <<>>
    /\ projector_calls = <<>>
    /\ schedule = <<>>
    /\ initial_hours_used = 0
    /\ pickup_location_index = 0
    /\ current_day_driving = 0
    /\ current_day_duty = 0
    /\ hours_since_break = 0
    /\ cycle_hours_used = 0
    /\ current_day = 1
    /\ pickup_done = FALSE
    /\ current_location = <<0, 0>>
    /\ daily_duty_hours = [k \in 1..cycle_days |-> 0]
    /\ i = 0
    /\ remaining_segment_hours = 0

\* one call: the returned point and the returned remainder are kept as given
Project ==
    /\ pc = "project"
    /\ LET found == find_location_after_distance(remaining_coords, distance_since_fuel)
       IN  /\ current_location' = found.point
           /\ remaining_coords' = found.rest
    /\ pc' = "projected"
    /\ UNCHANGED <<inputs, eld_logs, projector_calls, schedule, current_day_driving, current_day_duty,
                   hours_since_break, cycle_hours_used, current_day,
                   distance_since_fuel, pickup_done, daily_duty_hours, i,
                   remaining_segment_hours>>

FindNext == Project

FindSpec == FindInit /\ [][FindNext]_vars

(***************************************************************************)
(* Vocabulary of the properties                                            *)
(***************************************************************************)
\* calculate_route_schedule has returned
Done == pc \in {"done", "logged"}

Indices == 1..Len(schedule)

OfType(type) == {k \in Indices : schedule[k].activity_type = type}

Days == {schedule[k].day : k \in Indices}

RECURSIVE SumDuration(_)
\* sum of duration_hours over the set S of schedule indices
SumDuration(S) ==
    IF S = {} THEN 0
    ELSE LET k == CHOOSE x \in S : TRUE
         IN  schedule[k].duration_hours + SumDuration(S \ {k})

RECURSIVE SumDistance(_)
\* sum of distance_miles over the set S of schedule indices
SumDistance(S) ==
    IF S = {} THEN 0
    ELSE LET k == CHOOSE x \in S : TRUE
         IN  schedule[k].distance_miles + SumDistance(S \ {k})

\* an event of the given type is appended by the step
Emits(type) ==
    /\ Len(schedule') = Len(schedule) + 1
    /\ Last(schedule').activity_type = type


OnDay(d) == {k \in Indices : schedule[k].day = d}

(***************************************************************************)
(* C1: daily duty cap                                                      *)
(***************************************************************************)
DutyCounted == {"DRIVING", "BREAK", "PICKUP", "DROPOFF", "FUEL"}

DayDuty(d) == SumDuration({k \in OnDay(d) : schedule[k].activity_type \in DutyCounted})

\* C1: in every returned schedule, for every day d, the durations of the
\* DRIVING, BREAK, PICKUP, DROPOFF and FUEL events of day d sum to at most 14 h.
C1_DayDutyAtMost14 ==
    Done => \A d \in Days : DayDuty(d) <= max_daily_duty_hours

(***************************************************************************)
(* C2: the rolling window against the duty hours of the trailing 8 days    *)
(***************************************************************************)
LastRestart ==
    IF OfType("RESTART") = {} THEN 0
    ELSE CHOOSE k \in OfType("RESTART") : \A j \in OfType("RESTART") : j <= k

\* duty hours used on current_day and the 7 days before it, since the last
\* RESTART; initial_hours_used belongs to day 1
TrailingDuty ==
    (IF LastRestart = 0 /\ 1 >= current_day - (cycle_days - 1)
     THEN initial_hours_used ELSE 0)
    + SumDuration({k \in Indices :
                     /\ k > LastRestart
                     /\ schedule[k].activity_type \in {"PICKUP", "BREAK", "DRIVING", "FUEL"}
                     /\ schedule[k].day >= current_day - (cycle_days - 1)
                     /\ schedule[k].day <= current_day})

\* C2: at every point of the run daily_duty_hours holds exactly 8 values and
\* their sum is the duty hours used in the trailing 8-day window.
C2_WindowIsTrailingDuty ==
    /\ Len(daily_duty_hours) = cycle_days
    /\ SumSeq(daily_duty_hours) = TrailingDuty

(***************************************************************************)
(* C3: the 70-hour guard on DRIVING and RESTART                            *)
(***************************************************************************)
\* C3: a DRIVING event is emitted only when the sum of the rolling window just
\* before it is below 70 h, and a RESTART only when that sum is 70 h or more.
C3_CycleGuard ==
    [][/\ Emits("DRIVING") => total_cycle_hours < max_cycle_hours
       /\ Emits("RESTART") => total_cycle_hours >= max_cycle_hours]_vars

\* a stint granted after a RESTART, and one granted with the window part-used
C3_Witness ==
    /\ pc = "fuel"
    /\ OfType("RESTART") # {}
    /\ Last(schedule).activity_type = "DRIVING"
    /\ \E k \in OfType("DRIVING") :
           /\ k < LastRestart
           /\ schedule[k].cycle_hours_remaining = 0

(***************************************************************************)
(* C4: daily driving cap                                                   *)
(***************************************************************************)
DayDriving(d) == SumDuration({k \in OnDay(d) : schedule[k].activity_type = "DRIVING"})

\* C4: for every day d, the durations of the DRIVING events of day d sum to
\* at most 11 h.
C4_DayDrivingAtMost11 ==
    \A d \in Days : DayDriving(d) <= max_daily_driving_hours

\* a returned schedule with a day of exactly 11 h made of several stints
C4_Witness ==
    /\ Done
    /\ \E d \in Days :
           /\ DayDriving(d) = max_daily_driving_hours
           /\ Cardinality({k \in OnDay(d) : schedule[k].activity_type = "DRIVING"}) >= 2


(***************************************************************************)
(* C5: the pickup                                                          *)
(***************************************************************************)
OneLegPickup ==
    /\ Cardinality(OfType("PICKUP")) = 1
    /\ \A p \in OfType("PICKUP") :
           /\ schedule[p].location_index = pickup_location_index
           /\ \A k \in OfType("DRIVING") :
                  schedule[k].location_index = pickup_location_index => p < k

\* C5 as stated: for every non-empty leg list and every pickup index >= 0 the
\* returned schedule holds exactly one PICKUP, at the pickup index, before
\* every DRIVING event of that leg.
C5_PickupAnyIndex ==
    (Done /\ route_segments # <<>>) => OneLegPickup

\* C5 amended: the same, for a pickup index that is the index of a leg
\* (0 <= pickup_location_index < number of legs).
C5_PickupAtLegIndex ==
    (Done /\ route_segments # <<>> /\ pickup_location_index < Len(route_segments))
        => OneLegPickup

\* a returned two-leg schedule whose pickup is at the second leg, which is driven
C5_Witness ==
    /\ Done
    /\ Len(route_segments) = 2
    /\ pickup_location_index = 1
    /\ OfType("PICKUP") # {}
    /\ \E k \in OfType("DRIVING") : schedule[k].location_index = 1
    /\ \E k \in OfType("DRIVING") : schedule[k].location_index = 0

(***************************************************************************)
(* C6: the dropoff                                                         *)
(***************************************************************************)
LegDriving(j) ==
    SumDuration({k \in OfType("DRIVING") : schedule[k].location_index = j})

\* C6: for a non-empty leg list the returned schedule holds exactly one
\* DROPOFF, it is the last event, and it is emitted only once the driving
\* hours of every leg are fully scheduled.
C6_DropoffLast ==
    /\ OfType("DROPOFF") # {} =>
           /\ Done
           /\ \A j \in 1..Len(route_segments) :
                  LegDriving(j - 1) = route_segments[j].duration_hours
    /\ (Done /\ route_segments # <<>>) =>
           /\ Cardinality(OfType("DROPOFF")) = 1
           /\ Last(schedule).activity_type = "DROPOFF"

\* a returned two-leg schedule that needed a REST and a short last stint
C6_Witness ==
    /\ Done
    /\ Len(route_segments) = 2
    /\ Last(schedule).activity_type = "DROPOFF"
    /\ OfType("REST") # {}
    /\ \E k \in OfType("DRIVING") : schedule[k].duration_hours <= Hr(2)

(***************************************************************************)
(* C7: termination                                                         *)
(***************************************************************************)
\* C7: the call terminates: after a REST or a RESTART the next iteration can
\* grant a stint of positive length, every DRIVING stint strictly decreases
\* the remaining hours of the leg, and the return is reached.
C7_Terminates ==
    /\ [][(Emits("REST") \/ Emits("RESTART")) =>
              (remaining_segment_hours' > 0 /\ available_day_driving' > 0)]_vars
    /\ [][Emits("DRIVING") =>
              (remaining_segment_hours' < remaining_segment_hours
               /\ remaining_segment_hours' >= 0)]_vars
    /\ <>Done

\* a returned schedule that went through a RESTART and, later, a REST
C7_Witness ==
    /\ Done
    /\ \E r \in OfType("RESTART") : \E q \in OfType("REST") : r < q

(***************************************************************************)
(* C8: distance conservation                                               *)
(***************************************************************************)
RECURSIVE LegMiles(_)
LegMiles(segs) ==
    IF segs = <<>> THEN 0 ELSE Head(segs).distance_miles + LegMiles(Tail(segs))

\* C8: for legs with distance_miles > 0 and duration_hours >= 0, the
\* distance_miles of the DRIVING events sum to the distance_miles of the legs.
C8_DistanceConserved ==
    Done => SumDistance(OfType("DRIVING")) = LegMiles(route_segments)

(***************************************************************************)
(* C9, C10: scenarios                                                      *)
(***************************************************************************)
\* views.py: total_trip_days = max(item['day'] for item in schedule)
total_trip_days == CHOOSE d \in Days : \A e \in Days : e <= d

\* an event as its log entry shows it: type, day, start hour, end hour
Shown(k) ==
    <<schedule[k].activity_type, schedule[k].day,
      LogEntry(schedule[k]).start_hour, LogEntry(schedule[k]).end_hour>>

ShownSchedule == [k \in Indices |-> Shown(k)]

ScenarioB ==
    /\ Len(route_segments) = 2
    /\ \A j \in 1..2 : /\ route_segments[j].distance_miles = Mi(600)
                       /\ route_segments[j].duration_hours = Hr(11)
    /\ initial_hours_used = 0
    /\ pickup_location_index = 0

\* C9 as stated: scenario B returns exactly PICKUP(day 1, 0-1), DRIVING(day 1,
\* 1-12, 600 mi), REST(day 1, 12-24), DRIVING(day 2, 0-11, 600 mi),
\* DROPOFF(day 2, 11-12); 2 days in total.
C9_ScenarioB_FiveEvents ==
    (Done /\ ScenarioB) =>
        /\ ShownSchedule = << <<"PICKUP", 1, Hr(0), Hr(1)>>,
                              <<"DRIVING", 1, Hr(1), Hr(12)>>,
                              <<"REST", 1, Hr(12), Hr(24)>>,
                              <<"DRIVING", 2, Hr(0), Hr(11)>>,
                              <<"DROPOFF", 2, Hr(11), Hr(12)>> >>
        /\ \A k \in OfType("DRIVING") : schedule[k].distance_miles = Mi(600)
        /\ total_trip_days = 2

\* C9 amended: scenario B returns exactly PICKUP(day 1, 0-1), DRIVING(day 1,
\* 1-12, 600 mi), BREAK(day 1, 12-12.5), REST(day 1, 12.5-24), DRIVING(day 2,
\* 0-11, 600 mi), FUEL(day 2, 11-12), DROPOFF(day 2, 12-13); 2 days in total.
C9_ScenarioB_SevenEvents ==
    (Done /\ ScenarioB) =>
        /\ ShownSchedule = << <<"PICKUP", 1, Hr(0), Hr(1)>>,
                              <<"DRIVING", 1, Hr(1), Hr(12)>>,
                              <<"BREAK", 1, Hr(12), Hr(25) \div 2>>,
                              <<"REST", 1, Hr(25) \div 2, Hr(24)>>,
                              <<"DRIVING", 2, Hr(0), Hr(11)>>,
                              <<"FUEL", 2, Hr(11), Hr(12)>>,
                              <<"DROPOFF", 2, Hr(12), Hr(13)>> >>
        /\ \A k \in OfType("DRIVING") : schedule[k].distance_miles = Mi(600)
        /\ total_trip_days = 2

C9_Witness == Done /\ ScenarioB /\ Len(schedule) = 7

ScenarioD ==
    /\ Len(route_segments) = 1
    /\ route_segments[1].distance_miles = Mi(100)
    /\ route_segments[1].duration_hours = Hr(2)
    /\ initial_hours_used = Hr(70)
    /\ pickup_location_index = 0

\* the part of scenario D that follows the PICKUP
ScenarioD_Rest ==
    /\ Len(schedule) = 4
    /\ schedule[2].activity_type = "RESTART"
    /\ schedule[2].day = 1
    /\ schedule[2].duration_hours = Hr(34)
    /\ "restart_type" \in schedule[2].keys
    /\ schedule[2].restart_type = "34-hour"
    /\ Shown(3) = <<"DRIVING", 3, Hr(0), Hr(2)>>
    /\ schedule[3].distance_miles = Mi(100)
    /\ Shown(4) = <<"DROPOFF", 3, Hr(2), Hr(3)>>
    /\ total_trip_days = 3

\* C10 as stated: scenario D returns exactly PICKUP(day 1, duty hours 70-71),
\* RESTART(day 1, 34 h, '34-hour'), DRIVING(day 3, 0-2, 100 mi),
\* DROPOFF(day 3, 2-3); 3 days in total.
C10_ScenarioD_Pickup70 ==
    (Done /\ ScenarioD) =>
        /\ ScenarioD_Rest
        /\ Shown(1) = <<"PICKUP", 1, Hr(70), Hr(71)>>

\* C10 amended: the same with PICKUP(day 1, duty hours 0-1): the duty clock of
\* an event is the day's, it does not include initial_hours_used.
C10_ScenarioD_Pickup0 ==
    (Done /\ ScenarioD) =>
        /\ ScenarioD_Rest
        /\ Shown(1) = <<"PICKUP", 1, Hr(0), Hr(1)>>

C10_Witness ==
    /\ Done
    /\ ScenarioD
    /\ OfType("RESTART") # {}
    /\ Last(schedule).day = 3


(***************************************************************************)
(* C11: scenario A                                                         *)
(***************************************************************************)
ScenarioA ==
    /\ Len(route_segments) = 1
    /\ route_segments[1].distance_miles = Mi(100)
    /\ route_segments[1].duration_hours = Hr(2)
    /\ initial_hours_used = 0
    /\ pickup_location_index = 0

\* C11: scenario A returns exactly PICKUP(day 1, 0-1), DRIVING(day 1, 1-3,
\* 100 mi, cycle_hours_remaining 67), DROPOFF(day 1, 3-4); 1 day in total.
C11_ScenarioA ==
    (Done /\ ScenarioA) =>
        /\ ShownSchedule = << <<"PICKUP", 1, Hr(0), Hr(1)>>,
                              <<"DRIVING", 1, Hr(1), Hr(3)>>,
                              <<"DROPOFF", 1, Hr(3), Hr(4)>> >>
        /\ schedule[2].distance_miles = Mi(100)
        /\ "cycle_hours_remaining" \in schedule[2].keys
        /\ schedule[2].cycle_hours_remaining = Hr(67)
        /\ total_trip_days = 1

C11_Witness == Done /\ ScenarioA /\ Len(schedule) = 3

(***************************************************************************)
(* C12: fuel stops                                                         *)
(***************************************************************************)
\* the FUEL event before index f, or 0 for the start of the trip
FuelBefore(f) ==
    IF \E g \in OfType("FUEL") : g < f
    THEN CHOOSE g \in OfType("FUEL") :
             g < f /\ \A h \in OfType("FUEL") : h < f => h <= g
    ELSE 0

\* C12: the DRIVING events between two consecutive FUEL events, and between
\* the start of the trip and the first FUEL event, cover at least 1000 miles.
C12_FuelEvery1000Miles ==
    \A f \in OfType("FUEL") :
        SumDistance({k \in OfType("DRIVING") : FuelBefore(f) < k /\ k < f}) >= Mi(1000)

\* a returned schedule with two fuel stops, the second after several stints
C12_Witness ==
    /\ Done
    /\ \E f \in OfType("FUEL") :
           /\ FuelBefore(f) # 0
           /\ Cardinality({k \in OfType("DRIVING") : FuelBefore(f) < k /\ k < f}) >= 2

(***************************************************************************)
(* C13: the 30-minute break                                                *)
(***************************************************************************)
\* the last BREAK, REST or RESTART, or 0
LastPause ==
    LET P == OfType("BREAK") \cup OfType("REST") \cup OfType("RESTART")
    IN  IF P = {} THEN 0 ELSE CHOOSE k \in P : \A j \in P : j <= k

\* hours of PICKUP, DRIVING and FUEL since the last BREAK, REST or RESTART
SinceLastPause ==
    SumDuration({k \in Indices :
                   /\ k > LastPause
                   /\ schedule[k].activity_type \in {"PICKUP", "DRIVING", "FUEL"}})

\* C13: a BREAK is emitted only at the top of a loop iteration with hours
\* since break (PICKUP, DRIVING and FUEL hours since the last BREAK, REST or
\* RESTART) at 8 h or more; it resets hours since break, adds 0.5 h to the day
\* duty and to today's window slot and nothing to the day driving.
C13_BreakOnlyWhenDue ==
    /\ [](hours_since_break = SinceLastPause)
    /\ [][Emits("BREAK") =>
            /\ pc = "while"
            /\ remaining_segment_hours > 0
            /\ hours_since_break >= Hr(8)
            /\ Last(schedule').duration_hours * 2 = Hr(1)
            /\ hours_since_break' = 0
            /\ (current_day_duty' - current_day_duty) * 2 = Hr(1)
            /\ (daily_duty_hours'[1] - daily_duty_hours[1]) * 2 = Hr(1)
            /\ \A k \in 2..cycle_days : daily_duty_hours'[k] = daily_duty_hours[k]
            /\ current_day_driving' = current_day_driving]_vars

\* a break taken after a fuel stop that made up part of the 8 hours
C13_Witness ==
    /\ pc = "drive"
    /\ Len(schedule) >= 3
    /\ Last(schedule).activity_type = "BREAK"
    /\ schedule[Len(schedule) - 1].activity_type = "FUEL"
    /\ current_day_driving > 0

(***************************************************************************)
(* C14: days                                                               *)
(***************************************************************************)
\* C14: day never decreases along the schedule; it starts at 1 and changes
\* only at REST (+1) and RESTART (+2).
C14_DayMonotonic ==
    /\ [](/\ \A j, k \in Indices : j < k => schedule[j].day <= schedule[k].day
          /\ (OfType("REST") \cup OfType("RESTART") = {}) => current_day = 1
          /\ \A k \in Indices : schedule[k].day >= 1)
    /\ [][/\ Len(schedule') > Len(schedule) => Last(schedule').day = current_day
          /\ current_day' =
               current_day + (IF Emits("REST") THEN 1
                              ELSE IF Emits("RESTART") THEN 2 ELSE 0)]_vars

\* a returned schedule with events on days 1, 3 and 4
C14_Witness ==
    /\ Done
    /\ {1, 3, 4} \subseteq Days
    /\ OfType("REST") # {}
    /\ OfType("RESTART") # {}

(***************************************************************************)
(* C18: REST                                                               *)
(***************************************************************************)
\* C18: a REST advances the day by 1, zeroes day driving, day duty and hours
\* since break, and shifts the window by one day: the oldest entry is evicted,
\* the entries of the day that ended and of the 6 days before it are kept, and
\* a zero slot for the new day is put at the head.
C18_RestShiftsWindow ==
    [][Emits("REST") =>
         /\ current_day' = current_day + 1
         /\ current_day_driving' = 0
         /\ current_day_duty' = 0
         /\ hours_since_break' = 0
         /\ daily_duty_hours' = <<0>> \o SubSeq(daily_duty_hours, 1, cycle_days - 1)]_vars

(***************************************************************************)
(* C19: RESTART                                                            *)
(***************************************************************************)
\* C19: with no driving hours available and no cycle hours remaining the
\* step emits RESTART (34 h, '34-hour'), not REST, also when a daily cap is
\* exhausted too; the day advances by 2, day driving, day duty and hours since
\* break become 0 and the 8 window entries become 0.
C19_RestartWhenCycleExhausted ==
    [][(pc = "drive" /\ available_day_driving <= 0 /\ remaining_cycle_hours <= 0) =>
         /\ Emits("RESTART")
         /\ Last(schedule').duration_hours = Hr(34)
         /\ "restart_type" \in Last(schedule').keys
         /\ Last(schedule').restart_type = "34-hour"
         /\ current_day' = current_day + 2
         /\ current_day_driving' = 0
         /\ current_day_duty' = 0
         /\ hours_since_break' = 0
         /\ Len(daily_duty_hours') = 8
         /\ \A k \in 1..8 : daily_duty_hours'[k] = 0
         /\ total_cycle_hours' = 0]_vars

\* a RESTART taken on a day whose 11 driving hours were used up as well
C19_Witness ==
    \E k \in OfType("RESTART") : DayDriving(schedule[k].day) = Hr(11)

(***************************************************************************)
(* C20: what REST and RESTART leave alone                                  *)
(***************************************************************************)
\* C20: a REST or RESTART leaves the remaining hours of the leg, the distance
\* since fuel, the current location, the remaining geometry and the
\* pickup-done flag unchanged and appends exactly one event, the earlier
\* events staying as they were.
C20_RestFrame ==
    [][(Emits("REST") \/ Emits("RESTART")) =>
         /\ remaining_segment_hours' = remaining_segment_hours
         /\ distance_since_fuel' = distance_since_fuel
         /\ current_location' = current_location
         /\ remaining_coords' = remaining_coords
         /\ pickup_done' = pickup_done
         /\ Len(schedule') = Len(schedule) + 1
         /\ SubSeq(schedule', 1, Len(schedule)) = schedule]_vars

\* just after a REST taken mid-leg, part of the geometry and of the fuel
\* distance already used
C20_Witness ==
    /\ pc = "while"
    /\ schedule # <<>>
    /\ Last(schedule).activity_type = "REST"
    /\ remaining_segment_hours > 0
    /\ distance_since_fuel > 0
    /\ pickup_done
    /\ Len(remaining_coords) < Len(SegmentCoords(segment))

(***************************************************************************)
(* C15: one log per day, every event once, entries sorted, optional keys   *)
(***************************************************************************)
Logged == pc = "logged"

\* the log entry e carries the schedule item: same activity, place and start,
\* and the optional keys of the item with their values, no others
Carries(e, item) ==
    /\ e.activity_type = item.activity_type
    /\ e.location_index = item.location_index
    /\ e.start_hour = item.start_duty_hours
    /\ \A key \in {"coord", "cycle_hours_remaining"} :
          key \in e.keys <=> key \in item.keys
    /\ "coord" \in item.keys => e.coord = item.coord
    /\ "cycle_hours_remaining" \in item.keys
          => e.cycle_hours_remaining = item.cycle_hours_remaining

\* C15: generate_eld_logs gives exactly one log per distinct day of the
\* schedule, in strictly ascending day order; every schedule event appears
\* exactly once, as an entry of the log of its own day (each entry stands for
\* as many events of that day as there are entries like it); the entries of a
\* log are in non-decreasing start_hour order; coord and
\* cycle_hours_remaining are copied unchanged when present, absent otherwise.
C15_DailyLogs ==
    Logged =>
        /\ {eld_logs[n].day : n \in 1..Len(eld_logs)} = Days
        /\ Len(eld_logs) = Cardinality(Days)
        /\ \A n, m \in 1..Len(eld_logs) : n < m => eld_logs[n].day < eld_logs[m].day
        /\ \A n \in 1..Len(eld_logs) :
              LET acts == eld_logs[n].activities
                  on   == OnDay(eld_logs[n].day)
              IN  /\ Len(acts) = Cardinality(on)
                  /\ \A k \in on : \E p \in 1..Len(acts) : Carries(acts[p], schedule[k])
                  /\ \A p \in 1..Len(acts) :
                        Cardinality({q \in 1..Len(acts) : acts[q] = acts[p]})
                          = Cardinality({k \in on : Carries(acts[p], schedule[k])})
                  /\ \A p, q \in 1..Len(acts) :
                        p < q => acts[p].start_hour <= acts[q].start_hour

\* two events of one day given latest first, one with the optional keys and
\* one without, have been turned into a log
C15_Witness ==
    /\ Logged
    /\ Len(schedule) = 2
    /\ schedule[1].day = schedule[2].day
    /\ schedule[1].start_duty_hours > schedule[2].start_duty_hours
    /\ schedule[1].keys # schedule[2].keys
    /\ Len(eld_logs) = 1

(***************************************************************************)
(* C16: status, start_hour and end_hour of a log entry                     *)
(***************************************************************************)
\* the entry e is the one the claim describes for the schedule item
EntryFor(e, item) ==
    /\ e.activity_type = item.activity_type
    /\ e.status = CASE item.activity_type = "DRIVING" -> "D"
                    [] item.activity_type = "PICKUP" -> "ON"
                    [] item.activity_type = "DROPOFF" -> "ON"
                    [] item.activity_type = "FUEL" -> "ON"
                    [] item.activity_type = "BREAK" -> "OFF"
                    [] item.activity_type = "REST" -> "SB"
                    [] item.activity_type = "RESTART" -> "SB"
                    [] OTHER -> "OFF"
    /\ e.start_hour = item.start_duty_hours
    /\ e.end_hour = CASE item.activity_type = "REST" -> Hr(24)
                      [] item.activity_type = "RESTART" -> Hr(24)
                      [] OTHER -> item.end_duty_hours

\* C16: every log entry has status D for DRIVING, ON for PICKUP, DROPOFF and
\* FUEL, OFF for BREAK, SB for REST and RESTART, OFF for any other type; its
\* start_hour is the event's start_duty_hours; its end_hour is 24 for REST
\* and RESTART whatever the duration, the event's end_duty_hours otherwise.
C16_EntryStatusAndHours ==
    Logged =>
        \A n \in 1..Len(eld_logs) :
            LET acts == eld_logs[n].activities
                on   == OnDay(eld_logs[n].day)
            IN  /\ \A p \in 1..Len(acts) :
                      \E k \in on : /\ Carries(acts[p], schedule[k])
                                    /\ EntryFor(acts[p], schedule[k])
                /\ \A k \in on :
                      \E p \in 1..Len(acts) : EntryFor(acts[p], schedule[k])

\* a log holds a rest whose duration does not reach hour 24 and an activity
\* of a type the table does not name
C16_Witness ==
    /\ Logged
    /\ \E k \in OfType("REST") :
          schedule[k].start_duty_hours + schedule[k].duration_hours < Hr(24)
    /\ OfType("INSPECTION") # {}
    /\ \E n \in 1..Len(eld_logs) : \E p \in 1..Len(eld_logs[n].activities) :
          eld_logs[n].activities[p].status = "OFF"

(***************************************************************************)
(* C17: legs without usable geometry                                       *)
(***************************************************************************)
\* the leg of 0-based index idx has no geometry or fewer than 2 points
NoGeometry(idx) ==
    LET geometry == route_segments[idx + 1].geometry
    IN  geometry.is_none \/ Len(geometry.coordinates) < 2

\* what an event says about time and distance
Timing(type, idx, dur, dist, day, start) ==
    [activity_type |-> type, location_index |-> idx, duration_hours |-> dur,
     distance_miles |-> dist, day |-> day, start_duty_hours |-> start]

TimingOf(e) ==
    Timing(e.activity_type, e.location_index, e.duration_hours, e.distance_miles,
           e.day, e.start_duty_hours)

\* The plan of a trip whose legs all have valid geometry, read off lines
\* 78-320 with the coordinates left out: remaining_coords of such a leg is
\* never empty, so the fuel test of line 248 is the distance test alone.
PlanStart(hours_used) ==
    [out |-> <<>>, day_driving |-> 0, day_duty |-> 0, since_break |-> 0,
     day |-> 1, since_fuel |-> 0, pickup_done |-> FALSE,
     window |-> <<hours_used>> \o [k \in 1..(cycle_days - 1) |-> 0],
     remaining |-> 0]

\* an on-duty stop of dur hours that counts toward the next break
PlanStop(st, type, idx, dur) ==
    [st EXCEPT !.out = Append(@, Timing(type, idx, dur, 0, st.day, st.day_duty)),
               !.day_duty = @ + dur,
               !.since_break = @ + dur,
               !.window = AddToday(@, dur)]

RECURSIVE PlanWhile(_, _, _)
\* the while loop of lines 130-296 for the leg seg of index idx
PlanWhile(st, seg, idx) ==
    IF ~(st.remaining > 0) \/ Len(st.out) >= MaxEvents THEN st
    ELSE
    LET s1 == IF st.since_break >= required_break_after_hours
              THEN [PlanStop(st, "BREAK", idx, required_break_duration_hours)
                       EXCEPT !.since_break = 0]
              ELSE st
        remaining_cycle == Max(0, max_cycle_hours - SumSeq(s1.window))
        available ==
            Min(Min(max_daily_driving_hours - s1.day_driving,
                    max_daily_duty_hours - s1.day_duty),
                Min(remaining_cycle, s1.remaining))
    IN  IF available <= 0
        THEN IF remaining_cycle <= 0
             THEN PlanWhile(
                     [s1 EXCEPT !.out = Append(@, Timing("RESTART", idx,
                                            restart_duration_hours, 0, s1.day,
                                            s1.day_duty)),
                                !.day = @ + restart_day_span,
                                !.day_driving = 0, !.day_duty = 0,
                                !.since_break = 0,
                                !.window = [k \in 1..cycle_days |-> 0]],
                     seg, idx)
             ELSE PlanWhile(
                     [s1 EXCEPT !.out = Append(@, Timing("REST", idx,
                                            min_rest_period_hours, 0, s1.day,
                                            s1.day_duty)),
                                !.day = @ + rest_day_span,
                                !.day_driving = 0, !.day_duty = 0,
                                !.since_break = 0,
                                !.window = DequeAppend(@, 0)],
                     seg, idx)
        ELSE LET distance_covered == (speed_num(seg) * available) \div speed_den(seg)
                 s2 == [s1 EXCEPT !.out = Append(@, Timing("DRIVING", idx, available,
                                              distance_covered, s1.day, s1.day_duty)),
                                  !.day_driving = @ + available,
                                  !.day_duty = @ + available,
                                  !.since_break = @ + available,
                                  !.window = AddToday(@, available),
                                  !.remaining = @ - available,
                                  !.since_fuel = @ + distance_covered]
                 s3 == IF s2.since_fuel >= fuel_distance_miles
                       THEN [PlanStop(s2, "FUEL", idx, fuel_duration_hours)
                                EXCEPT !.since_fuel = 0]
                       ELSE s2
             IN  PlanWhile(s3, seg, idx)

RECURSIVE PlanLegs(_, _, _, _)
\* the for loop of lines 92-296 from the leg of index idx on
PlanLegs(st, legs, pickup, idx) ==
    IF ~(idx < Len(legs)) THEN st
    ELSE LET seg == legs[idx + 1]
             s1 == IF idx = pickup /\ ~st.pickup_done
                   THEN [PlanStop(st, "PICKUP", idx, pickup_duration_hours)
                            EXCEPT !.pickup_done = TRUE]
                   ELSE st
         IN  PlanLegs(PlanWhile([s1 EXCEPT !.remaining = seg.duration_hours], seg, idx),
                      legs, pickup, idx + 1)

\* the events of the whole plan, the dropoff of lines 298-318 last
Plan(legs, hours_used, pickup) ==
    LET st == PlanLegs(PlanStart(hours_used), legs, pickup, 0)
    IN  IF legs # <<>>
        THEN PlanStop(st, "DROPOFF", Len(legs), dropoff_duration_hours).out
        ELSE st.out

\* the driving stints of the leg of index idx among the timings
DrivingOn(timings, idx) ==
    SelectSeq(timings, LAMBDA t : t.activity_type = "DRIVING" /\ t.location_index = idx)

ScheduleTimings == [k \in Indices |-> TimingOf(schedule[k])]

\* C17: a trip of at least one leg, some of them without geometry or with
\* fewer than 2 points, returns a schedule that ends in DROPOFF; the DRIVING
\* events of such a leg are at (0,0), and their durations and distances (and
\* days and start hours) are those of the same trip with valid geometry.
C17_NoGeometryLegs ==
    (/\ Done
     /\ route_segments # <<>>
     /\ \E idx \in 0..(Len(route_segments) - 1) : NoGeometry(idx))
    => /\ schedule # <<>>
       /\ Last(schedule).activity_type = "DROPOFF"
       /\ \A k \in OfType("DRIVING") :
             NoGeometry(schedule[k].location_index) => schedule[k].coord = <<0, 0>>
       /\ \A idx \in 0..(Len(route_segments) - 1) :
             NoGeometry(idx) =>
                DrivingOn(ScheduleTimings, idx)
                  = DrivingOn(Plan(route_segments, initial_hours_used,
                                   pickup_location_index), idx)

\* a finished trip whose second leg has no usable geometry, is driven in
\* several stints with a fuel stop, and follows a leg that ended elsewhere
C17_Witness ==
    /\ Done
    /\ Len(route_segments) = 2
    /\ NoGeometry(1)
    /\ ~NoGeometry(0)
    /\ Cardinality({k \in OfType("DRIVING") : schedule[k].location_index = 1}) >= 2
    /\ \E k \in OfType("FUEL") : schedule[k].location_index = 1

(***************************************************************************)
(* C21: cycle_hours_remaining of a DRIVING event                           *)
(***************************************************************************)
\* C21: every DRIVING event carries cycle_hours_remaining = 70 - (sum of the
\* rolling window before the stint + the duration of the stint); the value is
\* at least 0 and below 70 - (sum of the window before the stint), and the
\* window total after the stint is at most 70.
C21_CycleHoursRemaining ==
    [][Emits("DRIVING") =>
          LET e == Last(schedule')
              before == SumSeq(daily_duty_hours)
          IN  /\ "cycle_hours_remaining" \in e.keys
              /\ e.cycle_hours_remaining = Hr(70) - (before + e.duration_hours)
              /\ e.cycle_hours_remaining >= 0
              /\ e.cycle_hours_remaining < Hr(70) - before
              /\ SumSeq(daily_duty_hours') = before + e.duration_hours
              /\ SumSeq(daily_duty_hours') <= Hr(70)]_vars

\* a stint cut short by the cycle: it leaves 0 hours of the 70 and hours of
\* the leg still to drive, in a trip that began with part of the cycle used
C21_Witness ==
    /\ pc = "fuel"
    /\ Last(schedule).activity_type = "DRIVING"
    /\ Last(schedule).cycle_hours_remaining = 0
    /\ remaining_segment_hours > 0
    /\ initial_hours_used > 0
    /\ initial_hours_used < Hr(70)

(***************************************************************************)
(* C22: find_location_after_distance                                       *)
(***************************************************************************)
\* the route and the target of the call, and what it returned
GivenRoute == route_segments[1].geometry.coordinates

GivenTarget == distance_since_fuel

RECURSIVE LengthBefore(_, _)
\* length of the route up to its vertex k
LengthBefore(route, k) ==
    IF k <= 1 THEN 0
    ELSE LengthBefore(route, k - 1) + geodesic(route[k - 1], route[k])

\* the segments (by start vertex) at whose end the length reaches the target
Reaching(route, d) ==
    {k \in 1..(Len(route) - 1) : LengthBefore(route, k + 1) >= d}

\* point lies on the segment from start to end at the given part of its
\* length, the part clamped to [0, length]; at start when the length is 0
Interpolated(point, start, end, part, length) ==
    LET clamped == Max(0, Min(length, part))
    IN  IF length = 0 THEN point = start
        ELSE /\ (point[1] - start[1]) * length = clamped * (end[1] - start[1])
             /\ (point[2] - start[2]) * length = clamped * (end[2] - start[2])

\* C22: find_location_after_distance(route, d) returns ([0,0], []) for an
\* empty route, (that point, []) for a one-point route, (last point, []) when
\* d exceeds the length of the route; otherwise the point of the first segment
\* at which the accumulated length reaches d, interpolated by the clamped
\* ratio (d - accumulated) / segment length (ratio 0 on a zero-length
\* segment), and the suffix of route from that segment's end vertex, which is
\* not empty and shorter than route.
C22_Projector ==
    pc = "projected" =>
        LET route == GivenRoute
            d == GivenTarget
            point == current_location
            rest == remaining_coords
        IN  IF route = <<>> THEN point = <<0, 0>> /\ rest = <<>>
            ELSE IF Len(route) = 1 THEN point = route[1] /\ rest = <<>>
            ELSE IF d > LengthBefore(route, Len(route))
            THEN point = route[Len(route)] /\ rest = <<>>
            ELSE LET k == CHOOSE x \in Reaching(route, d) :
                              \A y \in Reaching(route, d) : x <= y
                 IN  /\ Interpolated(point, route[k], route[k + 1],
                                     d - LengthBefore(route, k),
                                     geodesic(route[k], route[k + 1]))
                     /\ rest = SubSeq(route, k + 1, Len(route))
                     /\ rest # <<>>
                     /\ Len(rest) < Len(route)

\* a call that passed a whole segment and a zero-length one and stopped
\* inside the last segment of a three-point route
C22_Witness ==
    /\ pc = "projected"
    /\ Len(GivenRoute) = 3
    /\ GivenRoute[1] = GivenRoute[2]
    /\ GivenTarget > 0
    /\ Len(remaining_coords) = 1
    /\ current_location # GivenRoute[2]
    /\ current_location # GivenRoute[3]

(***************************************************************************)
(* C23: the polyline handed to the projector                               *)
(***************************************************************************)
Calls == 1..Len(projector_calls)

\* the call before call c for the same leg, or 0
CallBefore(c) ==
    LET P == {b \in Calls : b < c /\ projector_calls[b].location_index
                                       = projector_calls[c].location_index}
    IN  IF P = {} THEN 0 ELSE CHOOSE b \in P : \A x \in P : x <= b

\* the polyline of the leg of 0-based index idx as the simulation sets it up
LegPolyline(idx) == SegmentCoords(route_segments[idx + 1])

\* C23 as stated: within a leg every projector call receives exactly the
\* remainder the previous call of the leg returned, and the first call the
\* full polyline of the leg.
C23_RemainderHandedOn ==
    \A c \in Calls :
        projector_calls[c].route =
            IF CallBefore(c) = 0
            THEN LegPolyline(projector_calls[c].location_index)
            ELSE projector_calls[CallBefore(c)].remainder

\* C23 amended: within a leg every projector call receives the remainder the
\* previous call of the leg returned when that remainder is not empty, and
\* the polyline the previous call received when it is empty (the call ran
\* past the end); the first call receives the full polyline of the leg; a
\* remainder that is handed on is shorter than the polyline it came from.
C23_RemainderKeptUnlessEmpty ==
    \A c \in Calls :
        LET b == CallBefore(c)
        IN  /\ projector_calls[c].route # <<>>
            /\ projector_calls[c].route =
                  IF b = 0 THEN LegPolyline(projector_calls[c].location_index)
                  ELSE IF projector_calls[b].remainder # <<>>
                  THEN projector_calls[b].remainder
                  ELSE projector_calls[b].route
            /\ projector_calls[c].remainder # <<>>
                  => Len(projector_calls[c].remainder) < Len(projector_calls[c].route)

\* a leg with three calls: one handed on a remainder, the next ran past the
\* end, and the call after it was given the same polyline again
C23_Witness ==
    \E c \in Calls :
        LET b == CallBefore(c)
            a == IF b = 0 THEN 0 ELSE CallBefore(b)
        IN  /\ a # 0
            /\ projector_calls[a].remainder # <<>>
            /\ projector_calls[b].route = projector_calls[a].remainder
            /\ projector_calls[b].remainder = <<>>
            /\ projector_calls[c].route = projector_calls[b].route

(***************************************************************************)
(* C24: the driving hours of a leg                                         *)
(***************************************************************************)
\* C24: in the returned schedule the duration_hours of the DRIVING events of
\* leg j sum to the duration_hours of leg j, for every leg; every DRIVING
\* event, at any time, has duration_hours > 0; and DRIVING events appear in
\* non-decreasing location_index order.
C24_LegHoursDriven ==
    /\ Done => \A j \in 0..(Len(route_segments) - 1) :
                  LegDriving(j) = route_segments[j + 1].duration_hours
    /\ \A k \in OfType("DRIVING") :
          /\ schedule[k].duration_hours > 0
          /\ schedule[k].location_index \in 0..(Len(route_segments) - 1)
    /\ \A k, m \in OfType("DRIVING") :
          k < m => schedule[k].location_index <= schedule[m].location_index

\* a returned two-leg trip in which each leg was driven in several stints
C24_Witness ==
    /\ Done
    /\ Len(route_segments) = 2
    /\ \A j \in {0, 1} :
          Cardinality({k \in OfType("DRIVING") : schedule[k].location_index = j}) >= 2

(***************************************************************************)
(* C25: the duty clock within a day                                        *)
(***************************************************************************)
\* the event before event k on the same day, or 0
PrevOnDay(k) ==
    LET P == {j \in OnDay(schedule[k].day) : j < k}
    IN  IF P = {} THEN 0 ELSE CHOOSE j \in P : \A x \in P : x <= j

\* C25: the first event of every day has start_duty_hours = 0, every later
\* event of the day starts at the end_duty_hours of the event before it on
\* that day, a REST or RESTART is the last event of its day, and the entries
\* of each daily log do not overlap.
C25_DutyClockContiguous ==
    /\ \A k \in Indices :
          /\ schedule[k].start_duty_hours =
                IF PrevOnDay(k) = 0 THEN 0 ELSE schedule[PrevOnDay(k)].end_duty_hours
          /\ schedule[k].activity_type \in {"REST", "RESTART"}
                => \A j \in OnDay(schedule[k].day) : j <= k
    /\ Logged =>
          \A n \in 1..Len(eld_logs) :
             LET acts == eld_logs[n].activities
             IN  \A p, q \in 1..Len(acts) :
                    p < q => /\ acts[p].start_hour < acts[p].end_hour
                             /\ acts[p].end_hour <= acts[q].start_hour

\* logs of a trip with a day that ends in a REST after a break and a fuel
\* stop, and with a later day that begins with driving
C25_Witness ==
    /\ Logged
    /\ \E k \in OfType("REST") :
          /\ \E b \in OfType("BREAK") : schedule[b].day = schedule[k].day
          /\ \E f \in OfType("FUEL") : schedule[f].day = schedule[k].day
          /\ k + 1 \in OfType("DRIVING")
          /\ schedule[k + 1].day = schedule[k].day + 1
    /\ \E n \in 1..Len(eld_logs) : Len(eld_logs[n].activities) >= 4

=============================================================================
